---- MODULE Spec2Model ----
(***************************************************************************)
(* A model of the ShopMate e-commerce backend (backend/server.py): the     *)
(* order placement engine, the order life cycle, the account deletion      *)
(* cascade and the OTP-gated authentication state machine.                 *)
(*                                                                         *)
(* The MongoDB collections are the state.  A request handler is an atomic  *)
(* action when requests run one at a time; the order placement handlers    *)
(* are also given as step functions, one step per awaited database call,   *)
(* so that the same definition drives the concurrent specification.        *)
(***************************************************************************)
EXTENDS Integers, Sequences, FiniteSets, TLC

VARIABLES users, products, orders, tokens, now, reqs, resp, assigned, initial,
          issued, ratings, tickets, login_history, next_ticket

vars == <<users, products, orders, tokens, now, reqs, resp, assigned, initial,
          issued, ratings, tickets, login_history, next_ticket>>

(***************************************************************************)
(* Bounds of the model.                                                    *)
(***************************************************************************)
MaxStock == 1
MaxOrders == 2
MaxQty == 1
MaxCartLen == 2
MaxRoll == 3

(***************************************************************************)
(* Program constants.                                                      *)
(***************************************************************************)
OTP_EXPIRY_MINUTES == 10
ORDER_ID_WIDTH == 4

None == "none"
NoTime == -1

UserIds == {"u1", "u2", "adm"}
ProductIds == {"p1", "p2"}
Procs == {1, 2}
Quantities == (-1) .. MaxQty

(***************************************************************************)
(* Password hashing: bcrypt is one-way and salted; verify_password accepts *)
(* exactly the hashes made from the same password.                         *)
(***************************************************************************)
hash_password(password) == <<"bcrypt", password>>

verify_password(password, hashed) == hashed = hash_password(password)

(***************************************************************************)
(* Order identifiers are strings of decimal digits, modelled as sequences  *)
(* of digits: f"{n:04d}", int(s) and MongoDB's string ordering.            *)
(***************************************************************************)
RECURSIVE Digits(_)
Digits(n) == IF n < 10 THEN <<n>> ELSE Append(Digits(n \div 10), n % 10)

RECURSIVE ZeroPad(_, _)
ZeroPad(s, width) == IF Len(s) >= width THEN s ELSE ZeroPad(<<0>> \o s, width)

FormatOrderId(n) == ZeroPad(Digits(n), ORDER_ID_WIDTH)

RECURSIVE ParseInt(_)
ParseInt(s) == IF Len(s) = 0 THEN 0
               ELSE 10 * ParseInt(SubSeq(s, 1, Len(s) - 1)) + s[Len(s)]

\* a < b in the binary string comparison MongoDB sorts strings by, decided
\* from position i on
RECURSIVE StrLessFrom(_, _, _)
StrLessFrom(a, b, i) ==
    IF i > Len(b) THEN FALSE
    ELSE IF i > Len(a) THEN TRUE
    ELSE IF a[i] # b[i] THEN a[i] < b[i]
    ELSE StrLessFrom(a, b, i + 1)

StrLess(a, b) == StrLessFrom(a, b, 1)

\* of two orders the one that sorts later by order_id (the earlier index on
\* a tie)
Higher(O, l, r) == IF StrLess(O[l].order_id, O[r].order_id) THEN r ELSE l

\* find_one(..., sort=[("order_id", -1)]): the index in O[lo..hi] of an
\* order whose order_id is highest in string order
RECURSIVE LastIndex(_, _, _)
LastIndex(O, lo, hi) ==
    IF lo = hi THEN lo
    ELSE Higher(O, LastIndex(O, lo, (lo + hi) \div 2),
                   LastIndex(O, (lo + hi) \div 2 + 1, hi))

\* the "Generate sequential order ID" block of both placement handlers
NextOrderId(O) ==
    IF Len(O) = 0 THEN FormatOrderId(1)
    ELSE FormatOrderId(ParseInt(O[LastIndex(O, 1, Len(O))].order_id) + 1)

(***************************************************************************)
(* Access control gate.                                                    *)
(***************************************************************************)
create_access_token(U, uid) ==
    [user_id |-> uid, email |-> U[uid].email, role |-> U[uid].role]

\* the id of the live user a credential resolves to, or None (401)
get_current_user(U, tok) == IF tok.user_id \in DOMAIN U THEN tok.user_id ELSE None

(***************************************************************************)
(* Order placement, one step per awaited database call.  db holds the      *)
(* collections a placement writes; U is the users collection it reads.     *)
(***************************************************************************)
Item(pid, qty) == [product_id |-> pid, quantity |-> qty]

NewReq(kind, tok, cart) ==
    [kind |-> kind, token |-> tok, cart |-> cart, pc |-> "start", i |-> 1,
     user_email |-> None, order_id |-> <<>>, current_stock |-> 0, result |-> None]

Finish(r, result) == [r EXCEPT !.pc = "done", !.result = result]

\* the order document; its id field is set to order_id (line 1228), so one
\* field stands for both
NewOrder(r) ==
    [order_id |-> r.order_id, user_id |-> r.token.user_id,
     user_email |-> r.user_email, status |-> "pending", products |-> r.cart]

\* get_current_user, then the user document and its delivery address
StartStep(db, U, r, next) ==
    LET uid == get_current_user(U, r.token) IN
    IF uid = None THEN [db |-> db, req |-> Finish(r, "Unauthorized")]
    ELSE IF U[uid].delivery_address = None
         THEN [db |-> db, req |-> Finish(r, "MissingAddress")]
         ELSE [db |-> db, req |-> [r EXCEPT !.user_email = U[uid].email, !.pc = next]]

FindLastStep(db, r) ==
    [db |-> db, req |-> [r EXCEPT !.order_id = NextOrderId(db.orders), !.pc = "insert"]]

\* orders.insert_one with the identifier computed in the same step, as a
\* store that allocates identifiers atomically would
InsertStepAtomic(db, r) ==
    [db |-> [db EXCEPT !.orders = Append(@, [NewOrder(r) EXCEPT !.order_id = NextOrderId(db.orders)]),
                       !.assigned = Append(@, NextOrderId(db.orders))],
     req |-> IF Len(r.cart) = 0 THEN Finish(r, "ok")
             ELSE [r EXCEPT !.pc = "find_product", !.i = 1]]

\* orders.insert_one; assigned records the identifiers in the order given out
InsertStep(db, r) ==
    [db |-> [db EXCEPT !.orders = Append(@, NewOrder(r)),
                       !.assigned = Append(@, r.order_id)],
     req |-> IF Len(r.cart) = 0 THEN Finish(r, "ok")
             ELSE [r EXCEPT !.pc = "find_product", !.i = 1]]

\* products.update_one({"id": ...}, {"$set": {"stock": new_stock}})
UpdateStockStep(db, r) ==
    LET it == r.cart[r.i]
        new_stock == r.current_stock - it.quantity
    IN [db |-> IF it.product_id \in DOMAIN db.products
               THEN [db EXCEPT !.products[it.product_id].stock = new_stock]
               ELSE db,
        req |-> IF r.i = Len(r.cart) THEN Finish(r, "ok")
                ELSE [r EXCEPT !.pc = "find_product", !.i = r.i + 1]]

create_order_step(db, U, r) ==
    CASE r.pc = "start" -> StartStep(db, U, r, "find_last")
      [] r.pc = "find_last" -> FindLastStep(db, r)
      [] r.pc = "insert" -> InsertStep(db, r)
      [] r.pc = "find_product" ->
            LET it == r.cart[r.i] IN
            IF it.product_id \notin DOMAIN db.products
            THEN [db |-> db, req |-> Finish(r, "ProductNotFound")]
            ELSE IF db.products[it.product_id].stock < it.quantity
                 THEN [db |-> db, req |-> Finish(r, "InsufficientStock")]
                 ELSE [db |-> db,
                       req |-> [r EXCEPT !.current_stock = db.products[it.product_id].stock,
                                         !.pc = "update_stock"]]
      [] r.pc = "update_stock" -> UpdateStockStep(db, r)

create_buy_now_order_step(db, U, r) ==
    CASE r.pc = "start" ->
            StartStep(db, U, r, IF Len(r.cart) = 0 THEN "find_last" ELSE "validate")
      [] r.pc = "validate" ->
            LET it == r.cart[r.i] IN
            IF it.product_id \notin DOMAIN db.products
            THEN [db |-> db, req |-> Finish(r, "ProductNotFound")]
            ELSE IF db.products[it.product_id].stock < it.quantity
                 THEN [db |-> db, req |-> Finish(r, "InsufficientStock")]
                 ELSE [db |-> db,
                       req |-> IF r.i = Len(r.cart) THEN [r EXCEPT !.pc = "find_last"]
                               ELSE [r EXCEPT !.i = r.i + 1]]
      [] r.pc = "find_last" -> FindLastStep(db, r)
      [] r.pc = "insert" -> InsertStep(db, r)
      [] r.pc = "find_product" ->
            LET it == r.cart[r.i] IN
            IF it.product_id \notin DOMAIN db.products
            THEN [db |-> db, req |-> Finish(r, "InternalError")]
            ELSE [db |-> db,
                  req |-> [r EXCEPT !.current_stock = db.products[it.product_id].stock,
                                    !.pc = "update_stock"]]
      [] r.pc = "update_stock" -> UpdateStockStep(db, r)

PlaceStep(db, U, r) ==
    IF r.kind = "create_order" THEN create_order_step(db, U, r)
    ELSE create_buy_now_order_step(db, U, r)

\* a handler run to its response with no other request in between
RECURSIVE RunToDone(_, _, _)
RunOn(s, U) == RunToDone(s.db, U, s.req)

RunToDone(db, U, r) ==
    IF r.pc = "done" THEN [db |-> db, req |-> r]
    ELSE RunOn(PlaceStep(db, U, r), U)

Db == [products |-> products, orders |-> orders, assigned |-> assigned]

(***************************************************************************)
(* Inputs.                                                                 *)
(***************************************************************************)
Items == {Item(p, q) : p \in ProductIds, q \in Quantities}

Carts == UNION {[1 .. n -> Items] : n \in 0 .. MaxCartLen}

Passwords == {"pw1", "pw2"}

Statuses == {"pending", "confirmed", "shipped", "delivered", "cancelled"}

UserDoc(email, password, role, verified, address) ==
    [email |-> email, password_hash |-> hash_password(password), role |-> role,
     isVerified |-> verified, otp |-> None, otpExpires |-> NoTime,
     otpPurpose |-> None, pendingNewPassword |-> None,
     delivery_address |-> address]

NoResp == [op |-> None, result |-> None]

\* a login_history document, without its own id, time and client details:
\* the collection is kept as the set of these
LoginEntry(uid) == [user_id |-> uid]

\* no one-time code has been issued to the user
NoIssue == [otp |-> None, purpose |-> None]

Req0 == NewReq(None, None, <<>>)

IdleReq == [Req0 EXCEPT !.pc = "idle"]

(***************************************************************************)
(* The shop with its accounts in place: two verified customers with a      *)
(* delivery address and an admin without one, some of them logged in; a    *)
(* catalogue of one or two products.                                       *)
(***************************************************************************)
ShopUsers ==
    [u \in UserIds |->
        CASE u = "u1" -> UserDoc("a@x", "pw1", "user", TRUE, "addr")
          [] u = "u2" -> UserDoc("b@x", "pw1", "user", TRUE, "addr")
          [] u = "adm" -> UserDoc("adm@x", "pw1", "admin", TRUE, None)]

InitShop(logged_in) ==
    /\ users = ShopUsers
    /\ \E ps \in {{"p1"}, {"p1", "p2"}} :
           products \in [ps -> [stock : 0 .. MaxStock]]
    /\ orders = <<>>
    /\ tokens = {create_access_token(users, u) : u \in logged_in}
    /\ now = 0
    /\ reqs = [p \in Procs |-> IdleReq]
    /\ resp = NoResp
    /\ assigned = <<>>
    /\ initial = products
    /\ issued = [u \in UserIds |-> NoIssue]
    /\ ratings = <<>>
    /\ tickets = <<>>
    /\ login_history = {LoginEntry(tok.user_id) : tok \in tokens}
    /\ next_ticket = 1

(***************************************************************************)
(* Order placement, requests one at a time.                                *)
(***************************************************************************)
\* the handler's writes and its response; stock above MaxStock (reached by
\* negative quantities only) is outside the model
Respond(kind, out) ==
    /\ \A p \in DOMAIN out.db.products : out.db.products[p].stock <= MaxStock
    /\ products' = out.db.products
    /\ orders' = out.db.orders
    /\ assigned' = out.db.assigned
    /\ resp' = [op |-> kind, result |-> out.req.result]

PlaceOrder(kind, tok, cart, limit) ==
    /\ Len(assigned) < limit
    /\ Respond(kind, RunToDone(Db, users, NewReq(kind, tok, cart)))
    /\ UNCHANGED <<users, tokens, now, reqs, initial, issued,
                   ratings, tickets, login_history, next_ticket>>

create_order ==
    \E tok \in tokens, cart \in Carts : PlaceOrder("create_order", tok, cart, MaxOrders)

create_buy_now_order ==
    \E tok \in tokens, cart \in Carts :
        PlaceOrder("create_buy_now_order", tok, cart, MaxOrders)

NextPlace == create_order \/ create_buy_now_order

InitPlace == InitShop({"u1", "adm"})

SpecPlace == InitPlace /\ [][NextPlace]_vars

(***************************************************************************)
(* The order life cycle and account deletion, requests one at a time.      *)
(***************************************************************************)
ShopCarts == {<<>>, <<Item("p1", 1)>>}

OrderIds == {FormatOrderId(n) : n \in 1 .. MaxOrders + 1}

Min(S) == CHOOSE x \in S : \A y \in S : x <= y

\* update_one: the first document matching the filter gets the new status
SetStatus(O, matching, status) ==
    IF matching = {} THEN O ELSE [O EXCEPT ![Min(matching)].status = status]

\* get_admin_user: "Unauthorized", "Forbidden" or the admin's id
get_admin_user(U, tok) ==
    IF get_current_user(U, tok) = None THEN "Unauthorized"
    ELSE IF U[tok.user_id].role # "admin" THEN "Forbidden"
    ELSE tok.user_id

shop_create_order ==
    \E tok \in tokens, cart \in ShopCarts :
        PlaceOrder("create_order", tok, cart, MaxOrders)

shop_create_buy_now_order ==
    \E tok \in tokens, cart \in ShopCarts :
        PlaceOrder("create_buy_now_order", tok, cart, MaxOrders)

UpdateOrderStatus(tok, order_id, status) ==
    /\ resp' = [op |-> "update_order_status",
                result |-> IF get_admin_user(users, tok) \in {"Unauthorized", "Forbidden"}
                           THEN get_admin_user(users, tok)
                           ELSE IF status \notin Statuses THEN "InvalidStatus"
                           ELSE IF \A i \in 1 .. Len(orders) : orders[i].order_id # order_id
                                THEN "NotFound" ELSE "ok"]
    /\ orders' = IF get_admin_user(users, tok) \in {"Unauthorized", "Forbidden"}
                    \/ status \notin Statuses
                 THEN orders
                 ELSE SetStatus(orders,
                                {i \in 1 .. Len(orders) : orders[i].order_id = order_id},
                                status)
    /\ UNCHANGED <<users, products, tokens, now, reqs, assigned, initial, issued,
                   ratings, tickets, login_history, next_ticket>>

update_order_status ==
    \E tok \in tokens, order_id \in OrderIds, status \in Statuses \cup {"refunded"} :
        UpdateOrderStatus(tok, order_id, status)

\* the orders with this id, whoever placed them
OrdersOfAnyone(uid, order_id) ==
    {i \in 1 .. Len(orders) : orders[i].order_id = order_id}

\* the caller's orders with this id
OwnOrders(uid, order_id) ==
    {i \in 1 .. Len(orders) : orders[i].user_id = uid /\ orders[i].order_id = order_id}

\* cancel_order with the status check left out
CancelResultUnchecked(tok, order_id) ==
    IF get_current_user(users, tok) = None THEN "Unauthorized"
    ELSE IF OwnOrders(tok.user_id, order_id) = {} THEN "NotFound"
    ELSE "ok"

CancelResult(tok, order_id) ==
    IF get_current_user(users, tok) = None THEN "Unauthorized"
    ELSE IF OwnOrders(tok.user_id, order_id) = {} THEN "NotFound"
    ELSE IF orders[Min(OwnOrders(tok.user_id, order_id))].status
               \notin {"pending", "confirmed"}
         THEN "NotCancellable" ELSE "ok"

CancelOrder(tok, order_id) ==
    /\ resp' = [op |-> "cancel_order", result |-> CancelResult(tok, order_id),
                user |-> get_current_user(users, tok), arg |-> order_id]
    /\ orders' = IF resp'.result = "ok"
                 THEN SetStatus(orders, OwnOrders(tok.user_id, order_id), "cancelled")
                 ELSE orders
    /\ UNCHANGED <<users, products, tokens, now, reqs, assigned, initial, issued,
                   ratings, tickets, login_history, next_ticket>>

cancel_order == \E tok \in tokens, order_id \in OrderIds : CancelOrder(tok, order_id)

\* delete_one / delete_many by user id
Without(U, uid) == [u \in DOMAIN U \ {uid} |-> U[u]]

NotOf(uid, doc) == doc.user_id # uid

DeleteAccount(tok, password) ==
    /\ resp' = [op |-> "delete_account",
                result |-> IF get_current_user(users, tok) = None THEN "Unauthorized"
                           ELSE IF ~verify_password(password, users[tok.user_id].password_hash)
                                THEN "BadPassword" ELSE "ok",
                user |-> get_current_user(users, tok), arg |-> tok.user_id]
    /\ users' = IF resp'.result = "ok" THEN Without(users, tok.user_id) ELSE users
    /\ login_history' = IF resp'.result = "ok"
                        THEN {doc \in login_history : NotOf(tok.user_id, doc)}
                        ELSE login_history
    /\ orders' = IF resp'.result = "ok"
                 THEN SelectSeq(orders, LAMBDA doc : NotOf(tok.user_id, doc))
                 ELSE orders
    /\ tickets' = IF resp'.result = "ok"
                  THEN SelectSeq(tickets, LAMBDA doc : NotOf(tok.user_id, doc))
                  ELSE tickets
    /\ UNCHANGED <<products, tokens, now, reqs, assigned, initial, issued,
                   ratings, next_ticket>>

delete_account == \E tok \in tokens, password \in Passwords : DeleteAccount(tok, password)

NextShop ==
    \/ shop_create_order
    \/ shop_create_buy_now_order
    \/ update_order_status
    \/ cancel_order
    \/ delete_account

\* everyone logged in, one product in full stock
InitShopAll ==
    /\ InitShop(UserIds)
    /\ products = [p \in {"p1"} |-> [stock |-> MaxStock]]

SpecShop == InitShopAll /\ [][NextShop]_vars

(***************************************************************************)
(* Sequential placement far into the life of the shop: the orders          *)
(* collection as RollStart placements of an empty cart by u1 leave it when *)
(* they start from the empty collection (each placement finds the highest  *)
(* identifier so far and inserts the next), two short of the first         *)
(* identifier wider than ORDER_ID_WIDTH digits.                            *)
(***************************************************************************)
RECURSIVE Pow10(_)
Pow10(k) == IF k = 0 THEN 1 ELSE 10 * Pow10(k - 1)

RollStart == Pow10(ORDER_ID_WIDTH) - 2

RollCarts == {<<>>, <<Item("p2", 1)>>} \cup {<<Item("p1", q)>> : q \in Quantities}

PlacedStore(n) ==
    [i \in 1 .. n |->
        [order_id |-> FormatOrderId(i), user_id |-> "u1", user_email |-> "a@x",
         status |-> "pending", products |-> <<>>]]

InitRoll ==
    /\ users = ShopUsers
    /\ products = [p \in {"p1"} |-> [stock |-> MaxStock]]
    /\ orders = PlacedStore(RollStart)
    /\ tokens = {create_access_token(users, "u1")}
    /\ now = 0
    /\ reqs = [p \in Procs |-> IdleReq]
    /\ resp = NoResp
    /\ assigned = [i \in 1 .. RollStart |-> FormatOrderId(i)]
    /\ initial = products
    /\ issued = [u \in UserIds |-> NoIssue]
    /\ ratings = <<>>
    /\ tickets = <<>>
    /\ login_history = {LoginEntry(tok.user_id) : tok \in tokens}
    /\ next_ticket = 1

roll_create_order ==
    \E tok \in tokens, cart \in RollCarts :
        PlaceOrder("create_order", tok, cart, RollStart + MaxRoll)

roll_create_buy_now_order ==
    \E tok \in tokens, cart \in RollCarts :
        PlaceOrder("create_buy_now_order", tok, cart, RollStart + MaxRoll)

NextRoll == roll_create_order \/ roll_create_buy_now_order

SpecRoll == InitRoll /\ [][NextRoll]_vars

(***************************************************************************)
(* Order placement with two requests in flight: each awaited database call *)
(* of a handler is one step, and the steps of the two requests interleave  *)
(* in any order (no lock or transaction spans a handler).                  *)
(***************************************************************************)
ConcCarts == {<<Item(p, q)>> : p \in ProductIds, q \in 1 .. MaxQty}

BeginPlace(p, kind, tok, cart) ==
    /\ reqs[p].pc = "idle"
    /\ reqs' = [reqs EXCEPT ![p] = NewReq(kind, tok, cart)]
    /\ UNCHANGED <<users, products, orders, tokens, now, resp, assigned, initial, issued,
                   ratings, tickets, login_history, next_ticket>>

Advance(p, out) ==
    /\ products' = out.db.products
    /\ orders' = out.db.orders
    /\ assigned' = out.db.assigned
    /\ reqs' = [reqs EXCEPT ![p] = out.req]

StepPlace(p) ==
    /\ reqs[p].pc \notin {"idle", "done"}
    /\ Advance(p, PlaceStep(Db, users, reqs[p]))
    /\ UNCHANGED <<users, tokens, now, resp, initial, issued,
                   ratings, tickets, login_history, next_ticket>>

begin_create_order ==
    \E p \in Procs, tok \in tokens, cart \in ConcCarts :
        BeginPlace(p, "create_order", tok, cart)

begin_create_buy_now_order ==
    \E p \in Procs, tok \in tokens, cart \in ConcCarts :
        BeginPlace(p, "create_buy_now_order", tok, cart)

step_place == \E p \in Procs : StepPlace(p)

NextConc == begin_create_order \/ begin_create_buy_now_order \/ step_place

InitConc == InitShop({"u1", "u2"})

SpecConc == InitConc /\ [][NextConc]_vars

(***************************************************************************)
(* The OTP-gated accounts.  Each handler is a function of the users        *)
(* collection, the request and the clock, giving the collection it leaves  *)
(* and its result.  An email address names the first user that carries it  *)
(* (find_one / update_one with an email filter).                           *)
(***************************************************************************)
MaxTime == 20

\* the clock moves in steps of one code lifetime
TickStep == OTP_EXPIRY_MINUTES

UserSeq == <<"u1", "u2", "adm">>

Emails == {"a@x", "b@x"}

Codes == {"111111", "222222"}

Roles == {"user", "admin"}

\* the registration forms: role is a field of the request body
Forms == {[email |-> "a@x", password |-> "pw1", role |-> r] : r \in Roles}

FindByEmail(U, email) ==
    LET hits == {i \in 1 .. Len(UserSeq) :
                    UserSeq[i] \in DOMAIN U /\ U[UserSeq[i]].email = email}
    IN  IF hits = {} THEN None ELSE UserSeq[Min(hits)]

\* the id of the next inserted user: ids are never reused
NewUserId(U) == UserSeq[Min({i \in 1 .. Len(UserSeq) : UserSeq[i] \notin DOMAIN U})]

Out(U, result) == [users |-> U, result |-> result]

\* the expiry check with the instant of expiry counted as past
ExpiredAtExpiry(doc, t) == t >= doc.otpExpires

\* the time is past the stored expiry
Expired(doc, t) == t > doc.otpExpires

SetOtp(doc, otp, t) ==
    [doc EXCEPT !.otp = otp, !.otpExpires = t + OTP_EXPIRY_MINUTES]

\* send_email: an upstream failure is an error of the handler unless the
\* handler catches it
Mailed(U, mail_ok) == Out(U, IF mail_ok THEN "ok" ELSE "UpstreamFailure")

Register(U, email, password, role, otp, t) ==
    IF FindByEmail(U, email) # None THEN Out(U, "EmailTaken")
    ELSE LET id == NewUserId(U)
             doc == SetOtp(UserDoc(email, password, role, FALSE, None), otp, t)
         IN  Out([u \in DOMAIN U \cup {id} |-> IF u = id THEN doc ELSE U[u]], "ok")

ResendOtp(U, email, otp, t) ==
    LET u == FindByEmail(U, email) IN
    IF u = None THEN Out(U, "NotFound")
    ELSE IF U[u].isVerified THEN Out(U, "AlreadyVerified")
    ELSE Out([U EXCEPT ![u] = SetOtp(@, otp, t)], "ok")

\* verify_otp with the expiry check left out
VerifyOtpNoExpiry(U, email, otp, t) ==
    LET u == FindByEmail(U, email) IN
    IF u = None THEN Out(U, "NotFound")
    ELSE IF U[u].isVerified THEN Out(U, "AlreadyVerified")
    ELSE IF U[u].otp # otp THEN Out(U, "InvalidCode")
    ELSE Out([U EXCEPT ![u].isVerified = TRUE, ![u].otp = None,
                       ![u].otpExpires = NoTime], "ok")

VerifyOtp(U, email, otp, t) ==
    LET u == FindByEmail(U, email) IN
    IF u = None THEN Out(U, "NotFound")
    ELSE IF U[u].isVerified THEN Out(U, "AlreadyVerified")
    ELSE IF U[u].otp # otp THEN Out(U, "InvalidCode")
    ELSE IF Expired(U[u], t) THEN Out(U, "Expired")
    ELSE Out([U EXCEPT ![u].isVerified = TRUE, ![u].otp = None,
                       ![u].otpExpires = NoTime], "ok")

ForgotPasswordRequest(U, email, otp, t, mail_ok) ==
    LET u == FindByEmail(U, email) IN
    IF u = None THEN Out(U, "NotFound")
    ELSE Mailed([U EXCEPT ![u] = [SetOtp(@, otp, t) EXCEPT !.otpPurpose = "reset"]],
                mail_ok)

\* the checks shared by the confirmations that carry a purpose
CheckOtp(doc, purpose, otp, t) ==
    IF doc.otpPurpose # purpose THEN "InvalidPurpose"
    ELSE IF doc.otp # otp THEN "InvalidCode"
    ELSE IF Expired(doc, t) THEN "Expired"
    ELSE "ok"

ForgotPasswordVerify(U, email, otp, t) ==
    LET u == FindByEmail(U, email) IN
    IF u = None THEN Out(U, "NotFound") ELSE Out(U, CheckOtp(U[u], "reset", otp, t))

ForgotPasswordReset(U, email, otp, new_password, t) ==
    LET u == FindByEmail(U, email) IN
    IF u = None THEN Out(U, "NotFound")
    ELSE IF CheckOtp(U[u], "reset", otp, t) # "ok"
    THEN Out(U, CheckOtp(U[u], "reset", otp, t))
    ELSE Out([U EXCEPT ![u].password_hash = hash_password(new_password),
                       ![u].otp = None, ![u].otpExpires = NoTime,
                       ![u].otpPurpose = None], "ok")

\* request-otp that puts the new password in place at once
RequestChangePasswordOtpEager(U, tok, old_password, new_password, otp, t, mail_ok) ==
    LET u == get_current_user(U, tok) IN
    IF u = None THEN Out(U, "Unauthorized")
    ELSE IF ~verify_password(old_password, U[u].password_hash)
    THEN Out(U, "BadPassword")
    ELSE Mailed([U EXCEPT ![u] = [SetOtp(@, otp, t) EXCEPT
                                     !.otpPurpose = "change_password",
                                     !.password_hash = hash_password(new_password),
                                     !.pendingNewPassword = hash_password(new_password)]],
                mail_ok)

RequestChangePasswordOtp(U, tok, old_password, new_password, otp, t, mail_ok) ==
    LET u == get_current_user(U, tok) IN
    IF u = None THEN Out(U, "Unauthorized")
    ELSE IF ~verify_password(old_password, U[u].password_hash)
    THEN Out(U, "BadPassword")
    ELSE Mailed([U EXCEPT ![u] = [SetOtp(@, otp, t) EXCEPT
                                     !.otpPurpose = "change_password",
                                     !.pendingNewPassword = hash_password(new_password)]],
                mail_ok)

VerifyChangePasswordOtp(U, tok, otp, t) ==
    LET u == get_current_user(U, tok) IN
    IF u = None THEN Out(U, "Unauthorized")
    ELSE IF CheckOtp(U[u], "change_password", otp, t) # "ok"
    THEN Out(U, CheckOtp(U[u], "change_password", otp, t))
    ELSE IF U[u].pendingNewPassword = None THEN Out(U, "NoPending")
    ELSE Out([U EXCEPT ![u].password_hash = U[u].pendingNewPassword,
                       ![u].otp = None, ![u].otpExpires = NoTime,
                       ![u].otpPurpose = None, ![u].pendingNewPassword = None], "ok")

\* login with the verification check left out
LoginUnchecked(U, email, password) ==
    LET u == FindByEmail(U, email) IN
    IF u = None THEN "InvalidCredentials"
    ELSE IF ~verify_password(password, U[u].password_hash) THEN "InvalidCredentials"
    ELSE "ok"

Login(U, email, password) ==
    LET u == FindByEmail(U, email) IN
    IF u = None THEN "InvalidCredentials"
    ELSE IF ~U[u].isVerified THEN "Forbidden"
    ELSE IF ~verify_password(password, U[u].password_hash) THEN "InvalidCredentials"
    ELSE "ok"

(***************************************************************************)
(* The account requests, one at a time.  resp records the request (its     *)
(* operation, the user it names and the code or password it carries) and   *)
(* the result; issued records, per user, the code an issuing operation     *)
(* generated last and the purpose of that operation.                       *)
(***************************************************************************)
AuthRespond(op, u, arg, out) ==
    /\ users' = out.users
    /\ resp' = [op |-> op, result |-> out.result, user |-> u, arg |-> arg]

\* the handler stored a fresh code for the user
Issue(u, otp, purpose) == issued' = [issued EXCEPT ![u] = [otp |-> otp, purpose |-> purpose]]

\* every write that stores a code stores it before the mail is sent
Stored(out) == out.result \in {"ok", "UpstreamFailure"}

\* a mail failure is caught: the outcome of the mail does not show
register ==
    \E form \in Forms, otp \in Codes :
        LET out == Register(users, form.email, form.password, form.role, otp, now) IN
        /\ AuthRespond("register", FindByEmail(out.users, form.email), otp, out)
        /\ IF out.result = "ok"
           THEN Issue(FindByEmail(out.users, form.email), otp, "register")
           ELSE UNCHANGED issued
        /\ UNCHANGED <<products, orders, tokens, now, reqs, assigned, initial,
                       ratings, tickets, login_history, next_ticket>>

resend_otp ==
    \E email \in Emails, otp \in Codes :
        LET out == ResendOtp(users, email, otp, now) IN
        /\ AuthRespond("resend_otp", FindByEmail(users, email), otp, out)
        /\ IF out.result = "ok"
           THEN Issue(FindByEmail(users, email), otp, "register")
           ELSE UNCHANGED issued
        /\ UNCHANGED <<products, orders, tokens, now, reqs, assigned, initial,
                       ratings, tickets, login_history, next_ticket>>

verify_otp ==
    \E email \in Emails, otp \in Codes :
        /\ AuthRespond("verify_otp", FindByEmail(users, email), otp,
                       VerifyOtp(users, email, otp, now))
        /\ UNCHANGED <<products, orders, tokens, now, reqs, assigned, initial, issued,
                   ratings, tickets, login_history, next_ticket>>

forgot_password_request ==
    \E email \in Emails, otp \in Codes, mail_ok \in BOOLEAN :
        LET out == ForgotPasswordRequest(users, email, otp, now, mail_ok) IN
        /\ AuthRespond("forgot_password_request", FindByEmail(users, email), otp, out)
        /\ IF Stored(out)
           THEN Issue(FindByEmail(users, email), otp, "reset")
           ELSE UNCHANGED issued
        /\ UNCHANGED <<products, orders, tokens, now, reqs, assigned, initial,
                       ratings, tickets, login_history, next_ticket>>

forgot_password_verify ==
    \E email \in Emails, otp \in Codes :
        /\ AuthRespond("forgot_password_verify", FindByEmail(users, email), otp,
                       ForgotPasswordVerify(users, email, otp, now))
        /\ UNCHANGED <<products, orders, tokens, now, reqs, assigned, initial, issued,
                   ratings, tickets, login_history, next_ticket>>

forgot_password_reset ==
    \E email \in Emails, otp \in Codes, new_password \in Passwords :
        /\ AuthRespond("forgot_password_reset", FindByEmail(users, email), otp,
                       ForgotPasswordReset(users, email, otp, new_password, now))
        /\ UNCHANGED <<products, orders, tokens, now, reqs, assigned, initial, issued,
                   ratings, tickets, login_history, next_ticket>>

login ==
    \E email \in Emails, password \in Passwords :
        LET u == FindByEmail(users, email)
            result == Login(users, email, password) IN
        /\ AuthRespond("login", u, password, Out(users, result))
        /\ tokens' = IF result = "ok"
                     THEN tokens \cup {create_access_token(users, u)}
                     ELSE tokens
        /\ login_history' = IF result = "ok"
                            THEN login_history \cup {LoginEntry(u)}
                            ELSE login_history
        /\ UNCHANGED <<products, orders, now, reqs, assigned, initial, issued,
                       ratings, tickets, next_ticket>>

request_change_password_otp ==
    \E tok \in tokens, old_password \in Passwords, new_password \in Passwords,
       otp \in Codes, mail_ok \in BOOLEAN :
        LET out == RequestChangePasswordOtp(users, tok, old_password, new_password,
                                            otp, now, mail_ok) IN
        /\ users' = out.users
        /\ resp' = [op |-> "request_change_password_otp", result |-> out.result,
                    user |-> get_current_user(users, tok), arg |-> otp,
                    new_password |-> new_password]
        /\ IF Stored(out)
           THEN Issue(get_current_user(users, tok), otp, "change_password")
           ELSE UNCHANGED issued
        /\ UNCHANGED <<products, orders, tokens, now, reqs, assigned, initial,
                       ratings, tickets, login_history, next_ticket>>

verify_change_password_otp ==
    \E tok \in tokens, otp \in Codes :
        /\ AuthRespond("verify_change_password_otp", get_current_user(users, tok), otp,
                       VerifyChangePasswordOtp(users, tok, otp, now))
        /\ UNCHANGED <<products, orders, tokens, now, reqs, assigned, initial, issued,
                   ratings, tickets, login_history, next_ticket>>

\* the clock moves on
Tick ==
    /\ now + TickStep <= MaxTime
    /\ now' = now + TickStep
    /\ resp' = NoResp
    /\ UNCHANGED <<users, products, orders, tokens, reqs, assigned, initial, issued,
                   ratings, tickets, login_history, next_ticket>>

NextAuth ==
    \/ register
    \/ resend_otp
    \/ verify_otp
    \/ forgot_password_request
    \/ forgot_password_verify
    \/ forgot_password_reset
    \/ login
    \/ request_change_password_otp
    \/ verify_change_password_otp
    \/ Tick

InitAuth ==
    /\ users = <<>>
    /\ products = <<>>
    /\ orders = <<>>
    /\ tokens = {}
    /\ now = 0
    /\ reqs = [p \in Procs |-> IdleReq]
    /\ resp = NoResp
    /\ assigned = <<>>
    /\ initial = products
    /\ issued = [u \in UserIds |-> NoIssue]
    /\ ratings = <<>>
    /\ tickets = <<>>
    /\ login_history = {LoginEntry(tok.user_id) : tok \in tokens}
    /\ next_ticket = 1

SpecAuth == InitAuth /\ [][NextAuth]_vars

(***************************************************************************)
(* Product ratings.  A rating submission is given one step per awaited     *)
(* database call; rdb holds the collections it reads and writes.  The      *)
(* stored average is the exact quotient sum / count of the aggregation,    *)
(* kept as the pair of its numerator and denominator.                      *)
(***************************************************************************)
RATING_MIN == 1
RATING_MAX == 5

RatingValues == {RATING_MIN - 1, RATING_MIN, RATING_MIN + 1, RATING_MAX, RATING_MAX + 1}

\* Product(...): a new product document has no ratings
NewProduct(stock) ==
    [stock |-> stock, average_rating |-> [num |-> 0, den |-> 1], total_ratings |-> 0]

RatingsOf(R, pid) == {i \in 1 .. Len(R) : R[i].product_id = pid}

RECURSIVE SumOf(_, _)
SumOf(R, I) ==
    IF I = {} THEN 0 ELSE LET i == Min(I) IN R[i].rating + SumOf(R, I \ {i})

\* the aggregation gave no group
NoStats == [average_rating |-> [num |-> 0, den |-> 1], total_ratings |-> 0]

\* the $match / $group pipeline: no group when the product has no rating
Aggregate(R, pid) ==
    IF RatingsOf(R, pid) = {} THEN NoStats
    ELSE [average_rating |-> [num |-> SumOf(R, RatingsOf(R, pid)),
                              den |-> Cardinality(RatingsOf(R, pid))],
          total_ratings |-> Cardinality(RatingsOf(R, pid))]

NewRate(tok, pid, rating) ==
    [kind |-> "submit_product_rating", token |-> tok, product_id |-> pid,
     rating |-> rating, pc |-> "start", stats |-> NoStats, result |-> None]

IdleRate == [NewRate(None, None, 0) EXCEPT !.pc = "idle"]

RateOut(rdb, r) == [db |-> rdb, req |-> r]

\* the credential, the request model, then the product lookup
RateStartStep(rdb, U, r) ==
    IF get_current_user(U, r.token) = None
    THEN RateOut(rdb, Finish(r, "Unauthorized"))
    ELSE IF r.rating < RATING_MIN \/ r.rating > RATING_MAX
    THEN RateOut(rdb, Finish(r, "Invalid"))
    ELSE IF r.product_id \notin DOMAIN rdb.products
    THEN RateOut(rdb, Finish(r, "ProductNotFound"))
    ELSE RateOut(rdb, [r EXCEPT !.pc = "find_existing"])

\* the step with the existence check left out
RateFindExistingStepUnchecked(rdb, r) == RateOut(rdb, [r EXCEPT !.pc = "insert"])

RateFindExistingStep(rdb, r) ==
    IF \E i \in RatingsOf(rdb.ratings, r.product_id) :
           rdb.ratings[i].user_id = r.token.user_id
    THEN RateOut(rdb, Finish(r, "AlreadyRated"))
    ELSE RateOut(rdb, [r EXCEPT !.pc = "insert"])

RateInsertStep(rdb, r) ==
    RateOut([rdb EXCEPT !.ratings =
                 Append(@, [user_id |-> r.token.user_id, product_id |-> r.product_id,
                            rating |-> r.rating])],
            [r EXCEPT !.pc = "aggregate"])

RateAggregateStep(rdb, r) ==
    RateOut(rdb, [r EXCEPT !.stats = Aggregate(rdb.ratings, r.product_id),
                           !.pc = "update"])

\* update_one on the product id: nothing is written when no product matches
RateUpdateStep(rdb, r) ==
    IF r.stats = NoStats \/ r.product_id \notin DOMAIN rdb.products
    THEN RateOut(rdb, Finish(r, "ok"))
    ELSE RateOut([rdb EXCEPT !.products[r.product_id].average_rating =
                                 r.stats.average_rating,
                             !.products[r.product_id].total_ratings =
                                 r.stats.total_ratings],
                 Finish(r, "ok"))

submit_product_rating_step(rdb, U, r) ==
    CASE r.pc = "start" -> RateStartStep(rdb, U, r)
      [] r.pc = "find_existing" -> RateFindExistingStep(rdb, r)
      [] r.pc = "insert" -> RateInsertStep(rdb, r)
      [] r.pc = "aggregate" -> RateAggregateStep(rdb, r)
      [] r.pc = "update" -> RateUpdateStep(rdb, r)

RECURSIVE RateToDone(_, _, _)
RateOn(s, U) == RateToDone(s.db, U, s.req)

RateToDone(rdb, U, r) ==
    IF r.pc = "done" THEN RateOut(rdb, r)
    ELSE RateOn(submit_product_rating_step(rdb, U, r), U)

RateDb == [products |-> products, ratings |-> ratings]

(***************************************************************************)
(* Ratings and admin product updates, requests one at a time.              *)
(***************************************************************************)
RateRespond(r, out) ==
    /\ products' = out.db.products
    /\ ratings' = out.db.ratings
    /\ resp' = [op |-> r.kind, result |-> out.req.result,
                user |-> get_current_user(users, r.token),
                arg |-> [product_id |-> r.product_id, rating |-> r.rating]]

SubmitProductRating(r) ==
    /\ RateRespond(r, RateToDone(RateDb, users, r))
    /\ UNCHANGED <<users, orders, tokens, now, reqs, assigned, initial, issued,
                   tickets, login_history, next_ticket>>

submit_product_rating ==
    \E tok \in tokens, pid \in ProductIds, rating \in RatingValues :
        SubmitProductRating(NewRate(tok, pid, rating))

\* replace_one with a document built anew from the request
UpdateProduct(tok, pid, stock) ==
    /\ resp' = [op |-> "update_product",
                result |-> IF get_admin_user(users, tok) \in {"Unauthorized", "Forbidden"}
                           THEN get_admin_user(users, tok)
                           ELSE IF pid \notin DOMAIN products THEN "NotFound" ELSE "ok",
                user |-> get_current_user(users, tok), arg |-> pid]
    /\ products' = IF resp'.result = "ok"
                   THEN [products EXCEPT ![pid] = NewProduct(stock)]
                   ELSE products
    /\ UNCHANGED <<users, orders, tokens, now, reqs, assigned, initial, issued,
                   ratings, tickets, login_history, next_ticket>>

update_product ==
    \E tok \in tokens, pid \in ProductIds, stock \in 0 .. MaxStock :
        UpdateProduct(tok, pid, stock)

NextRate == submit_product_rating \/ update_product

\* everyone logged in, one product without ratings
InitRate ==
    /\ users = ShopUsers
    /\ products = [p \in {"p1"} |-> NewProduct(MaxStock)]
    /\ orders = <<>>
    /\ tokens = {create_access_token(users, u) : u \in UserIds}
    /\ now = 0
    /\ reqs = [p \in Procs |-> IdleRate]
    /\ resp = NoResp
    /\ assigned = <<>>
    /\ initial = products
    /\ issued = [u \in UserIds |-> NoIssue]
    /\ ratings = <<>>
    /\ tickets = <<>>
    /\ login_history = {LoginEntry(tok.user_id) : tok \in tokens}
    /\ next_ticket = 1

SpecRate == InitRate /\ [][NextRate]_vars

(***************************************************************************)
(* Two rating submissions in flight, their database calls interleaved.     *)
(***************************************************************************)
begin_submit_product_rating ==
    \E p \in Procs, tok \in tokens, pid \in ProductIds, rating \in RatingValues :
        /\ reqs[p].pc = "idle"
        /\ reqs' = [reqs EXCEPT ![p] = NewRate(tok, pid, rating)]
        /\ UNCHANGED <<users, products, orders, tokens, now, resp, assigned, initial,
                       issued, ratings, tickets, login_history, next_ticket>>

RateAdvance(p, out) ==
    /\ products' = out.db.products
    /\ ratings' = out.db.ratings
    /\ reqs' = [reqs EXCEPT ![p] = out.req]

step_submit_product_rating ==
    \E p \in Procs :
        /\ reqs[p].pc \notin {"idle", "done"}
        /\ RateAdvance(p, submit_product_rating_step(RateDb, users, reqs[p]))
        /\ UNCHANGED <<users, orders, tokens, now, resp, assigned, initial, issued,
                       tickets, login_history, next_ticket>>

NextRateConc == begin_submit_product_rating \/ step_submit_product_rating

SpecRateConc == InitRate /\ [][NextRateConc]_vars

(***************************************************************************)
(* Support tickets, with the two ways a user record is deleted, requests   *)
(* one at a time.  Ticket ids are handed out in order and never again.     *)
(***************************************************************************)
MaxTickets == 1
MaxMessages == 2

TicketIds == 1 .. MaxTickets + 1

TicketStatuses == {"open", "in_progress", "closed"}

\* message texts; the empty text is no reply for the admin update
Texts == {"", "text"}

Message(sender, text) == [sender |-> sender, message |-> text]

TicketsWith(T, id) == {i \in 1 .. Len(T) : T[i].id = id}

OwnTickets(T, uid, id) == {i \in TicketsWith(T, id) : T[i].user_id = uid}

\* the request body carries the status of the new ticket
CreateSupportTicket(tok, status, text) ==
    /\ next_ticket <= MaxTickets
    /\ resp' = [op |-> "create_support_ticket",
                result |-> IF get_current_user(users, tok) = None
                           THEN "Unauthorized" ELSE "ok",
                user |-> get_current_user(users, tok), arg |-> next_ticket]
    /\ tickets' = IF resp'.result = "ok"
                  THEN Append(tickets, [id |-> next_ticket, user_id |-> tok.user_id,
                                        status |-> status,
                                        messages |-> <<Message("user", text)>>])
                  ELSE tickets
    /\ next_ticket' = IF resp'.result = "ok" THEN next_ticket + 1 ELSE next_ticket
    /\ UNCHANGED <<users, products, orders, tokens, now, reqs, assigned, initial,
                   issued, ratings, login_history>>

create_support_ticket ==
    \E tok \in tokens, status \in {"open", "closed"} :
        CreateSupportTicket(tok, status, "text")

\* the $set and $push the admin update builds
AdminUpdate(doc, status, admin_reply) ==
    [doc EXCEPT !.status = IF status = None THEN @ ELSE status,
                !.messages = IF admin_reply = "" THEN @
                             ELSE Append(@, Message("admin", admin_reply))]

UpdateTicketResult(tok, id, status, admin_reply) ==
    IF get_admin_user(users, tok) \in {"Unauthorized", "Forbidden"}
    THEN get_admin_user(users, tok)
    ELSE IF status # None /\ status \notin TicketStatuses THEN "InvalidStatus"
    ELSE IF status = None /\ admin_reply = "" THEN "NoFields"
    ELSE IF TicketsWith(tickets, id) = {} THEN "NotFound"
    ELSE "ok"

UpdateSupportTicket(tok, id, status, admin_reply) ==
    /\ (UpdateTicketResult(tok, id, status, admin_reply) = "ok" /\ admin_reply # "")
          => Len(tickets[Min(TicketsWith(tickets, id))].messages) < MaxMessages
    /\ resp' = [op |-> "update_support_ticket",
                result |-> UpdateTicketResult(tok, id, status, admin_reply),
                user |-> get_current_user(users, tok),
                arg |-> [id |-> id, status |-> status, reply |-> admin_reply]]
    /\ tickets' = IF resp'.result = "ok"
                  THEN [tickets EXCEPT ![Min(TicketsWith(tickets, id))] =
                            AdminUpdate(@, status, admin_reply)]
                  ELSE tickets
    /\ UNCHANGED <<users, products, orders, tokens, now, reqs, assigned, initial,
                   issued, ratings, login_history, next_ticket>>

update_support_ticket ==
    \E tok \in tokens, id \in TicketIds, admin_reply \in Texts,
       status \in TicketStatuses \cup {None, "resolved"} :
        UpdateSupportTicket(tok, id, status, admin_reply)

\* user_reply_to_ticket with the status check left out
UserReplyResultUnchecked(tok, id) ==
    IF get_current_user(users, tok) = None THEN "Unauthorized"
    ELSE IF OwnTickets(tickets, tok.user_id, id) = {} THEN "NotFound"
    ELSE "ok"

UserReplyResult(tok, id) ==
    IF get_current_user(users, tok) = None THEN "Unauthorized"
    ELSE IF OwnTickets(tickets, tok.user_id, id) = {} THEN "NotFound"
    ELSE IF tickets[Min(OwnTickets(tickets, tok.user_id, id))].status = "closed"
    THEN "TicketClosed"
    ELSE "ok"

\* the reply is pushed to the first ticket with the id
UserReplyToTicket(tok, id, text) ==
    /\ UserReplyResult(tok, id) = "ok"
          => Len(tickets[Min(TicketsWith(tickets, id))].messages) < MaxMessages
    /\ resp' = [op |-> "user_reply_to_ticket", result |-> UserReplyResult(tok, id),
                user |-> get_current_user(users, tok),
                arg |-> [id |-> id, status |-> None, reply |-> text]]
    /\ tickets' = IF resp'.result = "ok"
                  THEN [tickets EXCEPT ![Min(TicketsWith(tickets, id))].messages =
                            Append(@, Message("user", text))]
                  ELSE tickets
    /\ UNCHANGED <<users, products, orders, tokens, now, reqs, assigned, initial,
                   issued, ratings, login_history, next_ticket>>

user_reply_to_ticket ==
    \E tok \in tokens, id \in TicketIds, text \in Texts : UserReplyToTicket(tok, id, text)

DeleteTicket(op, tok, id, result) ==
    /\ resp' = [op |-> op, result |-> result,
                user |-> get_current_user(users, tok), arg |-> id]
    /\ tickets' = IF result = "ok"
                  THEN SelectSeq(tickets, LAMBDA doc : doc.id # id)
                  ELSE tickets
    /\ UNCHANGED <<users, products, orders, tokens, now, reqs, assigned, initial,
                   issued, ratings, login_history, next_ticket>>

delete_support_ticket ==
    \E tok \in tokens, id \in TicketIds :
        DeleteTicket("delete_support_ticket", tok, id,
                     IF get_admin_user(users, tok) \in {"Unauthorized", "Forbidden"}
                     THEN get_admin_user(users, tok)
                     ELSE IF TicketsWith(tickets, id) = {} THEN "NotFound" ELSE "ok")

delete_my_support_ticket ==
    \E tok \in tokens, id \in TicketIds :
        DeleteTicket("delete_my_support_ticket", tok, id,
                     IF get_current_user(users, tok) = None THEN "Unauthorized"
                     ELSE IF OwnTickets(tickets, tok.user_id, id) = {} THEN "NotFound"
                     ELSE "ok")

\* the admin route deletes the user document and nothing else
DeleteUser(tok, user_id) ==
    /\ resp' = [op |-> "delete_user",
                result |-> IF get_admin_user(users, tok) \in {"Unauthorized", "Forbidden"}
                           THEN get_admin_user(users, tok)
                           ELSE IF user_id = tok.user_id THEN "OwnAccount"
                           ELSE IF user_id \notin DOMAIN users THEN "NotFound"
                           ELSE "ok",
                user |-> get_current_user(users, tok), arg |-> user_id]
    /\ users' = IF resp'.result = "ok" THEN Without(users, user_id) ELSE users
    /\ UNCHANGED <<products, orders, tokens, now, reqs, assigned, initial, issued,
                   ratings, tickets, login_history, next_ticket>>

delete_user == \E tok \in tokens, user_id \in UserIds : DeleteUser(tok, user_id)

NextSupport ==
    \/ create_support_ticket
    \/ update_support_ticket
    \/ user_reply_to_ticket
    \/ delete_support_ticket
    \/ delete_my_support_ticket
    \/ delete_account
    \/ delete_user

\* everyone logged in; u1 has placed an order
InitSupport ==
    /\ users = ShopUsers
    /\ products = [p \in {"p1"} |-> [stock |-> MaxStock]]
    /\ orders = PlacedStore(1)
    /\ tokens = {create_access_token(users, u) : u \in UserIds}
    /\ now = 0
    /\ reqs = [p \in Procs |-> IdleReq]
    /\ resp = NoResp
    /\ assigned = <<FormatOrderId(1)>>
    /\ initial = products
    /\ issued = [u \in UserIds |-> NoIssue]
    /\ ratings = <<>>
    /\ tickets = <<>>
    /\ login_history = {LoginEntry(tok.user_id) : tok \in tokens}
    /\ next_ticket = 1

SpecSupport == InitSupport /\ [][NextSupport]_vars


(***************************************************************************)
(* The requests a customer makes on orders and tickets, of the caller's    *)
(* own and of other users, one at a time.                                  *)
(***************************************************************************)
NextOwn ==
    \/ shop_create_order
    \/ cancel_order
    \/ create_support_ticket
    \/ user_reply_to_ticket
    \/ delete_my_support_ticket

SpecOwn == InitShopAll /\ [][NextOwn]_vars

(***************************************************************************)
(* Order cancellation with requests in flight: the status read and the     *)
(* status write of cancel_order are two awaited database calls, and admin  *)
(* status updates (one update_one) run between them.                       *)
(***************************************************************************)
NewCancel(tok, order_id) ==
    [kind |-> "cancel_order", token |-> tok, order_id |-> order_id,
     pc |-> "start", result |-> None]

\* get_current_user, find_one by user and id, the status check
CancelFindStep(O, U, r) ==
    [orders |-> O,
     req |-> IF CancelResult(r.token, r.order_id) = "ok"
             THEN [r EXCEPT !.pc = "update"]
             ELSE Finish(r, CancelResult(r.token, r.order_id))]

\* update_one by user and id; no document matched gives not-found
CancelUpdateStep(O, U, r) ==
    [orders |-> SetStatus(O, OwnOrders(r.token.user_id, r.order_id), "cancelled"),
     req |-> Finish(r, IF OwnOrders(r.token.user_id, r.order_id) = {}
                       THEN "NotFound" ELSE "ok")]

cancel_order_step(O, U, r) ==
    IF r.pc = "start" THEN CancelFindStep(O, U, r) ELSE CancelUpdateStep(O, U, r)

begin_cancel_order ==
    \E p \in Procs, tok \in tokens, order_id \in OrderIds :
        /\ reqs[p].pc = "idle"
        /\ reqs' = [reqs EXCEPT ![p] = NewCancel(tok, order_id)]
        /\ UNCHANGED <<users, products, orders, tokens, now, resp, assigned, initial,
                       issued, ratings, tickets, login_history, next_ticket>>

step_cancel_order ==
    \E p \in Procs :
        /\ reqs[p].pc \notin {"idle", "done"}
        /\ orders' = cancel_order_step(orders, users, reqs[p]).orders
        /\ reqs' = [reqs EXCEPT ![p] = cancel_order_step(orders, users, reqs[p]).req]
        /\ UNCHANGED <<users, products, tokens, now, resp, assigned, initial,
                       issued, ratings, tickets, login_history, next_ticket>>

NextCancelConc == begin_cancel_order \/ step_cancel_order \/ update_order_status

SpecCancelConc == InitSupport /\ [][NextCancelConc]_vars

(***************************************************************************)
(* Registration and profile email updates with two requests in flight:     *)
(* each awaited database call is one step.  The users collection has no    *)
(* unique index on email.                                                  *)
(***************************************************************************)
AcctEmails == {"a@x", "c@x"}

NewAcct(kind, tok, email, otp) ==
    [kind |-> kind, token |-> tok, email |-> email, otp |-> otp, pc |-> "start",
     user_email |-> None, result |-> None]

IdleAcct == [NewAcct(None, None, None, None) EXCEPT !.pc = "idle"]

AcctOut(U, r) == [users |-> U, req |-> r]

\* insert_one of the new, unverified user with its code
InsertUser(U, email, password, role, otp, t) ==
    [u \in DOMAIN U \cup {NewUserId(U)} |->
        IF u = NewUserId(U)
        THEN SetOtp(UserDoc(email, password, role, FALSE, None), otp, t)
        ELSE U[u]]

\* register: the existence check, then the insert; a failure of the mail
\* that follows is caught
register_step(U, r, t) ==
    CASE r.pc = "start" ->
            IF FindByEmail(U, r.email) # None THEN AcctOut(U, Finish(r, "EmailTaken"))
            ELSE AcctOut(U, [r EXCEPT !.pc = "insert"])
      [] r.pc = "insert" ->
            AcctOut(InsertUser(U, r.email, "pw1", "user", r.otp, t), Finish(r, "ok"))

\* update_user_profile with an email or with no field at all: the
\* credential, the check against other users, then the update; update_one
\* that modifies nothing is answered with not-found
update_user_profile_step(U, r) ==
    CASE r.pc = "start" ->
            IF get_current_user(U, r.token) = None
            THEN AcctOut(U, Finish(r, "Unauthorized"))
            ELSE AcctOut(U, [r EXCEPT !.user_email = U[r.token.user_id].email,
                                      !.pc = "check"])
      [] r.pc = "check" ->
            IF r.email # None /\ r.email # r.user_email
               /\ FindByEmail(U, r.email) \notin {None, r.token.user_id}
            THEN AcctOut(U, Finish(r, "EmailTaken"))
            ELSE AcctOut(U, [r EXCEPT !.pc = "update"])
      [] r.pc = "update" ->
            IF r.email = None THEN AcctOut(U, [r EXCEPT !.pc = "fetch"])
            ELSE IF r.token.user_id \notin DOMAIN U \/ U[r.token.user_id].email = r.email
            THEN AcctOut(U, Finish(r, "NotFound"))
            ELSE AcctOut([U EXCEPT ![r.token.user_id].email = r.email],
                         [r EXCEPT !.pc = "fetch"])
      [] r.pc = "fetch" ->
            IF r.token.user_id \notin DOMAIN U THEN AcctOut(U, Finish(r, "NotFound"))
            ELSE AcctOut(U, Finish(r, "ok"))

AcctStep(U, r, t) ==
    IF r.kind = "register" THEN register_step(U, r, t)
    ELSE update_user_profile_step(U, r)

BeginAcct(p, r) ==
    /\ reqs[p].pc = "idle"
    /\ reqs' = [reqs EXCEPT ![p] = r]
    /\ UNCHANGED <<users, products, orders, tokens, now, resp, assigned, initial,
                   issued, ratings, tickets, login_history, next_ticket>>

begin_register ==
    \E p \in Procs, email \in AcctEmails, otp \in Codes :
        BeginAcct(p, NewAcct("register", None, email, otp))

begin_update_user_profile ==
    \E p \in Procs, tok \in tokens, email \in AcctEmails \cup {None} :
        BeginAcct(p, NewAcct("update_user_profile", tok, email, None))

AcctAdvance(p, out) ==
    /\ users' = out.users
    /\ reqs' = [reqs EXCEPT ![p] = out.req]

step_account ==
    \E p \in Procs :
        /\ reqs[p].pc \notin {"idle", "done"}
        /\ AcctAdvance(p, AcctStep(users, reqs[p], now))
        /\ UNCHANGED <<products, orders, tokens, now, resp, assigned, initial,
                       issued, ratings, tickets, login_history, next_ticket>>

NextAcctConc == begin_register \/ begin_update_user_profile \/ step_account

\* one verified customer, logged in
InitAcctConc ==
    /\ users = [u \in {"u1"} |-> UserDoc("a@x", "pw1", "user", TRUE, None)]
    /\ products = <<>>
    /\ orders = <<>>
    /\ tokens = {create_access_token(users, "u1")}
    /\ now = 0
    /\ reqs = [p \in Procs |-> IdleAcct]
    /\ resp = NoResp
    /\ assigned = <<>>
    /\ initial = products
    /\ issued = [u \in UserIds |-> NoIssue]
    /\ ratings = <<>>
    /\ tickets = <<>>
    /\ login_history = {LoginEntry(tok.user_id) : tok \in tokens}
    /\ next_ticket = 1

SpecAcctConc == InitAcctConc /\ [][NextAcctConc]_vars

(***************************************************************************)
(* The store as the seed script leaves it: an admin and a sample customer, *)
(* inserted without the isVerified field, which every handler reads with   *)
(* the default False.  The requests open to them without a credential.     *)
(***************************************************************************)
SeedUsers ==
    [u \in {"u1", "adm"} |->
        IF u = "adm" THEN UserDoc("b@x", "pw1", "admin", FALSE, None)
        ELSE UserDoc("a@x", "pw2", "user", FALSE, None)]

InitSeed ==
    /\ users = SeedUsers
    /\ products = <<>>
    /\ orders = <<>>
    /\ tokens = {}
    /\ now = 0
    /\ reqs = [p \in Procs |-> IdleReq]
    /\ resp = NoResp
    /\ assigned = <<>>
    /\ initial = products
    /\ issued = [u \in UserIds |-> NoIssue]
    /\ ratings = <<>>
    /\ tickets = <<>>
    /\ login_history = {}
    /\ next_ticket = 1

NextSeed == login \/ resend_otp \/ verify_otp \/ Tick

SpecSeed == InitSeed /\ [][NextSeed]_vars

PlaceOps == {"create_order", "create_buy_now_order"}

\* C1: with requests run one at a time from stocks >= 0, every product's
\* stock is >= 0 after any sequence of create-order and buy-now placements,
\* carts that list one product in several line items included.
C1_StockNeverNegative == \A p \in DOMAIN products : products[p].stock >= 0

\* C2: an order placement that fails (missing address, unknown product,
\* insufficient stock on any line item) persists no order and decrements no
\* stock: the orders and products collections are as before the request.
C2_FailedPlacementChangesNothing ==
    [][(resp'.op \in PlaceOps /\ resp'.result # "ok")
          => (orders' = orders /\ products' = products)]_vars

\* C3: two placements for quantity 1 of one product with stock 1, their
\* database reads and writes interleaved in any order: exactly one succeeds,
\* the other is rejected with InsufficientStock, and the stock ends at 0 and
\* is never below 0.
RaceFor(p) ==
    /\ p \in DOMAIN initial /\ initial[p].stock = 1
    /\ \A q \in Procs : reqs[q].pc # "idle" /\ reqs[q].cart = <<Item(p, 1)>>

C3_ExactlyOneOfTwoSucceeds ==
    \A p \in ProductIds :
        RaceFor(p) =>
            /\ products[p].stock >= 0
            /\ (\A q \in Procs : reqs[q].pc = "done") =>
                  /\ products[p].stock = 0
                  /\ \E q \in Procs :
                        /\ reqs[q].result = "ok"
                        /\ \A o \in Procs \ {q} : reqs[o].result = "InsufficientStock"

\* C4: under sequential placement on an initially empty order store the
\* first order receives "0001", the second "0002", and every later order
\* an identifier strictly greater, as a number, than all assigned before it.
C4_SequentialIdentifiers ==
    /\ Len(assigned) >= 1 => assigned[1] = <<0, 0, 0, 1>>
    /\ Len(assigned) >= 2 => assigned[2] = <<0, 0, 0, 2>>
    /\ \A i \in 1 .. Len(assigned) - 1 :
          ParseInt(assigned[i]) < ParseInt(assigned[i + 1])

\* C5: an order identifier is never assigned twice: across any sequence of
\* placements and account deletions (which delete the user's orders) each
\* newly assigned identifier is greater than every identifier assigned
\* earlier, identifiers of deleted orders included.
C5_IdentifierNeverReused ==
    \A i \in 1 .. Len(assigned) - 1 :
        ParseInt(assigned[i]) < ParseInt(assigned[i + 1])

ConfirmOps == {"verify_otp", "forgot_password_verify", "forgot_password_reset",
               "verify_change_password_otp"}

PurposeOf(op) ==
    CASE op = "verify_otp" -> "register"
      [] op \in {"forgot_password_verify", "forgot_password_reset"} -> "reset"
      [] op = "verify_change_password_otp" -> "change_password"

\* the purpose of the code a user document holds; registration stores no tag
PendingPurpose(doc) == IF doc.otpPurpose = None THEN "register" ELSE doc.otpPurpose

\* C6: in each OTP confirmation (verify-otp, forgot-password verify and
\* reset, change-password verify-otp) a code submitted while the user's
\* stored purpose differs from the operation's purpose is rejected with
\* InvalidPurpose, whether or not it equals the stored code, and no field of
\* the user changes; a code issued for password reset never sets the
\* verification flag.
C6_WrongPurposeAlwaysFails ==
    [][(/\ resp'.op \in ConfirmOps
        /\ resp'.user # None
        /\ PendingPurpose(users[resp'.user]) # PurposeOf(resp'.op))
          => (resp'.result = "InvalidPurpose" /\ users' = users)]_vars

\* C7: registration creates the user with the verification flag false; the
\* flag turns true only in a verify-otp request whose code is the code
\* stored for the user and whose time is not past the stored expiry; a
\* verify-otp for a verified user is rejected and changes nothing.
C7_VerifiedOnlyByMatchingUnexpiredCode ==
    [][\A u \in UserIds :
          /\ (u \notin DOMAIN users /\ u \in DOMAIN users')
                => (resp'.op = "register" /\ ~users'[u].isVerified)
          /\ (u \in DOMAIN users /\ u \in DOMAIN users'
                /\ ~users[u].isVerified /\ users'[u].isVerified)
                => /\ resp'.op = "verify_otp" /\ resp'.user = u
                   /\ resp'.arg = users[u].otp
                   /\ now <= users[u].otpExpires
          /\ (resp'.op = "verify_otp" /\ resp'.user = u /\ users[u].isVerified)
                => (resp'.result = "AlreadyVerified" /\ users' = users)]_vars

C7_Verified ==
    /\ resp.op = "verify_otp" /\ resp.result = "ok"
    /\ users[resp.user].isVerified

C9_OnlyLatestCodeWithItsPurpose ==
    /\ [](\A u \in DOMAIN users : users[u].otp \in {None, issued[u].otp})
    /\ [][(resp'.op \in ConfirmOps /\ resp'.user # None /\ resp'.result = "ok")
             => /\ resp'.arg = issued[resp'.user].otp
                /\ PurposeOf(resp'.op) = issued[resp'.user].purpose]_vars

\* C10: an order's status only moves forward along pending, confirmed,
\* shipped, delivered, or to cancelled from pending or confirmed: no admin
\* status update and no user cancellation moves an order to an earlier
\* status, out of delivered, or out of cancelled.
Rank(status) ==
    CASE status = "pending" -> 0
      [] status = "confirmed" -> 1
      [] status = "shipped" -> 2
      [] status = "delivered" -> 3

Forward(old, new) ==
    \/ new = old
    \/ old # "cancelled" /\ new # "cancelled" /\ Rank(old) < Rank(new)
    \/ new = "cancelled" /\ old \in {"pending", "confirmed"}

C10_StatusOnlyMovesForward ==
    [][resp'.op \in {"update_order_status", "cancel_order"}
          => \A i \in 1 .. Len(orders) : Forward(orders[i].status, orders'[i].status)]_vars

\* C11: a user's cancel request on an order of their own succeeds and sets
\* the status to cancelled when the order is pending or confirmed; when the
\* order is shipped, delivered or cancelled already the request fails and
\* the status stays as it is.  No other order changes.
C11_CancelOnlyPendingOrConfirmed ==
    [][(resp'.op = "cancel_order" /\ resp'.user # None)
          => /\ Len(orders') = Len(orders)
             /\ \A i \in 1 .. Len(orders) :
                   IF orders[i].user_id = resp'.user /\ orders[i].order_id = resp'.arg
                   THEN IF orders[i].status \in {"pending", "confirmed"}
                        THEN resp'.result = "ok" /\ orders'[i].status = "cancelled"
                        ELSE resp'.result # "ok" /\ orders'[i] = orders[i]
                   ELSE orders'[i] = orders[i]]_vars

C11_Cancelled ==
    /\ resp.op = "cancel_order" /\ resp.result = "ok"
    /\ \E i \in 1 .. Len(orders) :
          /\ orders[i].user_id = resp.user /\ orders[i].order_id = resp.arg
          /\ orders[i].status = "cancelled"

\* C12: the buy-now entry point and the create-order entry point are
\* equivalent: from every store and for every cart and caller, the two give
\* the same result (success, or the same kind of failure) and leave the same
\* orders and the same product stocks.
SameOutcome(a, b) ==
    /\ a.req.result = b.req.result
    /\ a.db.orders = b.db.orders
    /\ a.db.products = b.db.products

C12_EntryPointsEquivalent ==
    \A tok \in tokens, cart \in Carts :
        SameOutcome(RunToDone(Db, users, NewReq("create_order", tok, cart)),
                    RunToDone(Db, users, NewReq("create_buy_now_order", tok, cart)))

\* C13: with rating submissions run one at a time there is one rating record
\* at most for each user and product: a submission by a user who has rated
\* the product already is rejected and changes neither the rating records
\* nor the product's stored average and count.
RatedBy(R, uid, pid) == \E i \in RatingsOf(R, pid) : R[i].user_id = uid

C13_OneRatingPerUserAndProduct ==
    /\ [](\A i, j \in 1 .. Len(ratings) :
             (ratings[i].user_id = ratings[j].user_id
                /\ ratings[i].product_id = ratings[j].product_id) => i = j)
    /\ [][(/\ resp'.op = "submit_product_rating"
           /\ resp'.user # None
           /\ RatedBy(ratings, resp'.user, resp'.arg.product_id))
             => /\ resp'.result # "ok"
                /\ ratings' = ratings
                /\ products' = products]_vars

C13_SecondRatingRejected ==
    /\ resp.op = "submit_product_rating" /\ resp.result = "AlreadyRated"
    /\ RatedBy(ratings, resp.user, resp.arg.product_id)

\* C14: after N successful rating submissions by N distinct users with
\* values r1..rN for a product, the product's stored count is N and its
\* stored average is (r1 + ... + rN) / N, whenever no submission is in
\* flight: after each submission when they run one at a time, and after
\* both have completed when the database calls of two submissions interleave.
MeanMatches(R, pid, doc) ==
    /\ doc.total_ratings = Cardinality(RatingsOf(R, pid))
    /\ doc.average_rating.num * Cardinality(RatingsOf(R, pid))
          = SumOf(R, RatingsOf(R, pid)) * doc.average_rating.den

DistinctRaters(R, pid) ==
    \A i, j \in RatingsOf(R, pid) : R[i].user_id = R[j].user_id => i = j

C14_StoredAggregateIsMean ==
    (\A q \in Procs : reqs[q].pc \in {"idle", "done"})
        => \A pid \in DOMAIN products :
              (RatingsOf(ratings, pid) # {} /\ DistinctRaters(ratings, pid))
                  => MeanMatches(ratings, pid, products[pid])

\* C15: for a closed ticket, a reply by its non-admin owner is rejected with
\* TicketClosed and the message list stays as it is, while an admin's reply
\* is accepted and appended to the message list.
ClosedTickets(id) == {i \in TicketsWith(tickets, id) : tickets[i].status = "closed"}

C15_ClosedTicketTakesAdminRepliesOnly ==
    [][/\ (/\ resp'.op = "user_reply_to_ticket"
           /\ resp'.user # None
           /\ users[resp'.user].role # "admin"
           /\ \E i \in ClosedTickets(resp'.arg.id) : tickets[i].user_id = resp'.user)
             => (resp'.result = "TicketClosed" /\ tickets' = tickets)
       /\ (/\ resp'.op = "update_support_ticket"
           /\ resp'.user # None
           /\ users[resp'.user].role = "admin"
           /\ resp'.arg.reply # ""
           /\ resp'.arg.status \in TicketStatuses \cup {None}
           /\ ClosedTickets(resp'.arg.id) # {})
             => /\ resp'.result = "ok"
                /\ \A i \in ClosedTickets(resp'.arg.id) :
                      tickets'[i].messages =
                          Append(tickets[i].messages, Message("admin", resp'.arg.reply))]_vars

C15_AdminRepliedToClosed ==
    /\ resp.op = "update_support_ticket" /\ resp.result = "ok"
    /\ resp.arg.status = None
    /\ \E i \in ClosedTickets(resp.arg.id) :
          tickets[i].messages[Len(tickets[i].messages)] = Message("admin", resp.arg.reply)

\* C16: a closed ticket stays closed, and a ticket in progress does not go
\* back to open: no admin ticket update and no user reply moves a ticket's
\* status from closed to open or in_progress, or from in_progress to open.
TicketForward(old, new) ==
    /\ old = "closed" => new = "closed"
    /\ old = "in_progress" => new # "open"

C16_ClosedStaysClosed ==
    [][\A i \in 1 .. Len(tickets), j \in 1 .. Len(tickets') :
          tickets[i].id = tickets'[j].id
              => TicketForward(tickets[i].status, tickets'[j].status)]_vars

\* C17: when a user record is deleted, by the user's own account deletion
\* or by an admin deleting the user, no order, support ticket or login
\* history record with that user's id remains afterwards.
NoneOf(uid, O, T, H) ==
    /\ \A i \in 1 .. Len(O) : O[i].user_id # uid
    /\ \A i \in 1 .. Len(T) : T[i].user_id # uid
    /\ \A doc \in H : doc.user_id # uid

C17_DeletionCascades ==
    [][\A uid \in DOMAIN users \ DOMAIN users' :
          NoneOf(uid, orders', tickets', login_history')]_vars

\* C18: no two user records share an email: after any sequence of
\* registrations and profile email updates run one at a time, and also when
\* two registrations, or a registration and a profile update, for the same
\* email interleave between their existence check and their write.
C18_EmailUnique ==
    \A u, v \in DOMAIN users : users[u].email = users[v].email => u = v

\* C19: a failure of the outbound email sender aborts no operation that
\* calls it: register, resend-otp, forgot-password request and
\* change-password request-otp answer with their success response also when
\* the delivery fails, and the user record and code they stored before
\* sending are kept.
IssueOps == {"register", "resend_otp", "forgot_password_request",
             "request_change_password_otp"}

C19_MailFailureNeverAborts ==
    [][resp'.op \in IssueOps => resp'.result # "UpstreamFailure"]_vars

\* C20: an existing user who logs in with the right password receives an
\* access token; the admin and the sample customer the seed script inserts
\* log in with their seeded passwords without any step before.
C20_RightPasswordLogsIn ==
    [][(/\ resp'.op = "login"
        /\ resp'.user # None
        /\ verify_password(resp'.arg, users[resp'.user].password_hash))
          => /\ resp'.result = "ok"
             /\ create_access_token(users, resp'.user) \in tokens']_vars

\* C21: the next order identifier is the numerically highest existing
\* identifier plus one, also past 4 digits: with "9999" and "10000" stored,
\* a placement that stores an order gives it "10001", an identifier no
\* stored order has.
C21_NextIsNumericMaxPlusOne ==
    [][(resp'.op \in PlaceOps /\ Len(orders') = Len(orders) + 1 /\ Len(orders) > 0)
          => LET new == orders'[Len(orders')].order_id IN
             /\ \A i \in 1 .. Len(orders) : orders[i].order_id # new
             /\ \A i \in 1 .. Len(orders) :
                   ParseInt(orders[i].order_id) < ParseInt(new)
             /\ \E i \in 1 .. Len(orders) :
                   ParseInt(orders[i].order_id) + 1 = ParseInt(new)]_vars

\* C22: two placements that run concurrently can both read the same highest
\* identifier before either inserts, and then two orders with one identifier
\* are stored.  An insert stores a second order under an identifier exactly
\* when the store has changed since the request read the highest identifier.
Inserts(p) == reqs[p].pc = "insert" /\ reqs'[p].pc # "insert"

RepeatsIdentifier(O) ==
    \E i \in 1 .. Len(O) - 1 : O[i].order_id = O[Len(O)].order_id

C22_DuplicateIffStaleRead ==
    [][\A p \in Procs :
          Inserts(p) =>
              (RepeatsIdentifier(orders') <=> reqs[p].order_id # NextOrderId(orders))]_vars

\* two stored orders carry one identifier, and both requests were answered
C22_DuplicateIdentifierStored ==
    /\ \E i, j \in 1 .. Len(orders) : i # j /\ orders[i].order_id = orders[j].order_id
    /\ \A p \in Procs : reqs[p].pc = "done" /\ reqs[p].result = "ok"

\* C23: a code issued at time t carries expiry t + 10 minutes; a confirmation
\* operation given the matching code accepts it at any time not later than
\* the stored expiry and answers Expired at any later time, and then leaves
\* the stored code and purpose as they are.
StoreOps == {"register", "resend_otp", "forgot_password_request",
             "request_change_password_otp"}

\* the request passes every check the operation makes before the expiry check
Matches(op, doc, otp) ==
    /\ doc.otp = otp
    /\ IF op = "verify_otp" THEN ~doc.isVerified ELSE doc.otpPurpose = PurposeOf(op)

C23_ExpiryTenMinutes ==
    [][/\ (resp'.op \in StoreOps /\ resp'.result \in {"ok", "UpstreamFailure"})
            => /\ users'[resp'.user].otp = resp'.arg
               /\ users'[resp'.user].otpExpires = now + OTP_EXPIRY_MINUTES
       /\ (/\ resp'.op \in ConfirmOps
           /\ resp'.user # None
           /\ Matches(resp'.op, users[resp'.user], resp'.arg))
            => IF now <= users[resp'.user].otpExpires
               THEN resp'.result = "ok"
               ELSE resp'.result = "Expired" /\ users' = users]_vars

\* a matching code was refused as expired, and one was accepted at its expiry
C23_RefusedAfterExpiry ==
    /\ resp.op \in ConfirmOps
    /\ resp.result = "Expired"
    /\ resp.user # None
    /\ users[resp.user].otp = resp.arg
    /\ now > users[resp.user].otpExpires

\* C24: after a successful confirmation that applies an effect (registration
\* verify-otp, forgot-password reset, change-password verify-otp) no
\* OTP-related field remains on the user record: the code, its expiry, its
\* purpose tag and the pending new password hash are all absent.
EffectOps == {"verify_otp", "forgot_password_reset", "verify_change_password_otp"}

NoOtpFields(doc) ==
    /\ doc.otp = None
    /\ doc.otpExpires = NoTime
    /\ doc.otpPurpose = None
    /\ doc.pendingNewPassword = None

C24_SuccessClearsOtpFields ==
    [][(resp'.op \in EffectOps /\ resp'.result = "ok")
          => NoOtpFields(users'[resp'.user])]_vars

\* C25: in the OTP-gated password change the password hash is not changed by
\* request-otp nor by a verify-otp that fails; a successful verify-otp sets
\* it to the hash stashed by the most recent request-otp (the pending hash is
\* written by request-otp alone, as the hash of that request's new password);
\* a request-otp with a wrong current password stores no code and no hash.
ChangeOps == {"request_change_password_otp", "verify_change_password_otp"}

PasswordHashes(U) == [u \in DOMAIN U |-> U[u].password_hash]

PendingHashes(U) == [u \in DOMAIN U |-> U[u].pendingNewPassword]

C26_RegistrationNeverGrantsAdmin ==
    /\ \A u \in DOMAIN users : users[u].role = "user"
    /\ \A tok \in tokens : get_admin_user(users, tok) \in {"Unauthorized", "Forbidden"}

\* C27: no order placement increases a product's stock: after create order
\* or buy-now, whether it succeeds or fails, every product's stock is at most
\* its stock before the request, for every line-item quantity the request
\* model accepts (zero and negative integers included).
C27_PlacementNeverRaisesStock ==
    [][resp'.op \in PlaceOps
          => \A p \in DOMAIN products : products'[p].stock <= products[p].stock]_vars

\* C28: an admin product update leaves the product's stored rating aggregate
\* unchanged: after PUT on a product that has ratings, its total_ratings is
\* still the number of rating records of the product and its average_rating
\* still their mean.
C28_UpdateKeepsRatingAggregate ==
    [][(/\ resp'.op = "update_product"
        /\ resp'.result = "ok"
        /\ RatingsOf(ratings, resp'.arg) # {})
          => /\ products'[resp'.arg].total_ratings = products[resp'.arg].total_ratings
             /\ products'[resp'.arg].average_rating = products[resp'.arg].average_rating
             /\ MeanMatches(ratings', resp'.arg, products'[resp'.arg])]_vars

\* C29: cancel order, ticket reply and ticket delete change only records
\* owned by the caller: aimed at an order or ticket whose owner is a
\* different user they fail with not-found and leave every order and ticket
\* of other users as it is.
OwnerOps == {"cancel_order", "user_reply_to_ticket", "delete_my_support_ticket"}

OfOthers(S, uid) == SelectSeq(S, LAMBDA doc : doc.user_id # uid)

TargetId(r) == IF r.op = "user_reply_to_ticket" THEN r.arg.id ELSE r.arg

\* no stored record of the collection with the target id belongs to the caller
NotOwned(S, r) ==
    \A i \in 1 .. Len(S) :
        (IF r.op = "cancel_order" THEN S[i].order_id ELSE S[i].id) = TargetId(r)
            => S[i].user_id # r.user

C29_OnlyOwnRecordsChange ==
    [][(resp'.op \in OwnerOps /\ resp'.user # None)
          => /\ OfOthers(orders', resp'.user) = OfOthers(orders, resp'.user)
             /\ OfOthers(tickets', resp'.user) = OfOthers(tickets, resp'.user)
             /\ (resp'.op = "cancel_order" /\ NotOwned(orders, resp'))
                   => resp'.result = "NotFound" /\ orders' = orders
             /\ (resp'.op # "cancel_order" /\ NotOwned(tickets, resp'))
                   => resp'.result = "NotFound" /\ tickets' = tickets]_vars

\* a cancel aimed at another user's order was answered not-found
C29_ForeignCancelRefused ==
    /\ resp.op = "cancel_order"
    /\ resp.result = "NotFound"
    /\ \E i \in 1 .. Len(orders) :
          /\ orders[i].order_id = resp.arg
          /\ orders[i].user_id # resp.user
          /\ orders[i].status = "pending"

\* C30: a user's cancel request never turns a shipped or delivered order
\* into a cancelled one, also when an admin status update for the order runs
\* between the cancel request's status read and its status write.  (The
\* steps of a cancel request are the steps that change reqs.)
C30_CancelNeverUndoesShipment ==
    [][reqs' # reqs
          => \A i \in 1 .. Len(orders) :
                orders[i].status \in {"shipped", "delivered"}
                    => orders'[i].status = orders[i].status]_vars

====
